---------------------------- MODULE Spec2Model ----------------------------
(***************************************************************************)
(* Model of clickthrough.c: an X11 client that opens the display, looks    *)
(* for a 32-bit TrueColor visual, creates and maps an override-redirect    *)
(* window, issues one SHAPE request on the window's input shape, paints    *)
(* the window and then idles.                                              *)
(*                                                                         *)
(* The client is main(), one action per statement that talks to Xlib.      *)
(* Xlib buffers requests in the Display's output buffer (outbuf) until     *)
(* XFlush writes them to the connection (wire).  The X server takes the    *)
(* requests of a connection off the wire one at a time, in order, at its   *)
(* own pace.  The server side is modelled from the core protocol and the   *)
(* SHAPE extension protocol, as far as the requests of main() need it.     *)
(***************************************************************************)
EXTENDS Integers, Sequences, FiniteSets, TLC

VARIABLES
    \* ---- the environment, fixed for one execution
    serverUp,       \* the display named by $DISPLAY can be reached
    hasArgbVisual,  \* the screen has a visual of depth 32, class TrueColor
    hasShapeExt,    \* the server implements the SHAPE extension
    wmRunning,      \* a window manager has selected SubstructureRedirect on root
    screenWidth,    \* DisplayWidth(display, screen)
    \* ---- the client: main()
    pc,             \* the statement main() executes next
    display,        \* Display *display
    vinfo,          \* XVisualInfo vinfo (uninitialised until XMatchVisualInfo fills it)
    attrs,          \* XSetWindowAttributes attrs
    gcForeground,   \* Xlib's cached foreground of gc
    gcDirty,        \* Xlib's cache of gc holds a change not yet sent
    outbuf,         \* Xlib's output buffer: requests issued, not yet written
    issued,         \* every request main() has issued so far, in order
    openCalls,      \* the number of XOpenDisplay calls made
    exitStatus,     \* the process's exit status, once pc is a final position
    diag,           \* what was written to stderr
    \* ---- the connection
    wire,           \* requests written by the client, not yet processed by the server
    errors,         \* X errors the server has sent, not yet read by the client
    \* ---- the server
    win,            \* the overlay window as the server holds it
    colormap,       \* the colormap created by the client
    gc,             \* the graphics context created by the client
    processed,      \* every request the server has processed, in order
    shapeSeen,      \* how the window was when the server took the shape request
    clicks,         \* pointer events the server has delivered so far (count)
    lastClick       \* the last pointer event and the window that received it

vars == <<serverUp, hasArgbVisual, hasShapeExt, wmRunning, screenWidth,
          pc, display, vinfo, attrs, gcForeground, gcDirty, outbuf, issued,
          openCalls, exitStatus, diag, wire, errors,
          win, colormap, gc, processed, shapeSeen, clicks, lastClick>>

envVars == <<serverUp, hasArgbVisual, hasShapeExt, wmRunning, screenWidth>>

clientVars == <<pc, display, vinfo, attrs, gcForeground, gcDirty, outbuf,
                issued, openCalls, exitStatus, diag>>

serverVars == <<win, colormap, gc, processed, shapeSeen>>

pointerVars == <<clicks, lastClick>>

-----------------------------------------------------------------------------
(* Bounds of the model *)

\* Pointer events the server delivers in one execution.
MaxClicks == 2

-----------------------------------------------------------------------------
(* Constants of the program *)

\* int width = 200, height = 200;  int y = 50;  the inset "- 50" of x
WinWidth == 200
WinHeight == 200
WinY == 50
RightInset == 50

\* XMatchVisualInfo(display, screen, 32, TrueColor, &vinfo)
AlphaDepth == 32

\* return 1 of main(); also exit(1) of Xlib's default error handler
ExitFailure == 1

\* XDrawString(display, window, gc, 50, 100, "Click Through Test", 18)
TextX == 50
TextY == 100
TextLen == 18

NULL == "NULL"
None == "None"
ShapeInput == "ShapeInput"
ShapeBounding == "ShapeBounding"
ShapeSet == "ShapeSet"
RedPixel == "0xFFFF0000"
WhitePixel == "0xFFFFFFFF"
TransparentPixel == "0x00000000"

\* x = DisplayWidth(display, screen) - width - 50
WinX == screenWidth - WinWidth - RightInset

-----------------------------------------------------------------------------
(* The environment *)

\* DisplayWidth values tried; the narrow one puts the window partly off-screen.
ScreenWidths == {1920, 200}

\* The depth of the screen's default visual.
DefaultDepth == CHOOSE d \in {24} : TRUE

\* The visuals of the screen and their depths.
ScreenVisuals == {"default"} \cup (IF hasArgbVisual THEN {"argb32"} ELSE {})

DepthOf(visual) == IF visual = "argb32" THEN AlphaDepth ELSE DefaultDepth

\* What the uninitialised XVisualInfo on main()'s stack may hold.  The visual
\* pointer is "wild" (reading through it faults), "bogus" (readable memory
\* that is no Visual: the id read names no visual) or happens to point at
\* the default visual; the depth is whatever the stack held.
GarbageVinfo ==
    { [visual |-> v, depth |-> d, filled |-> FALSE] :
          v \in {"wild", "bogus", "default"}, d \in {DefaultDepth, AlphaDepth} }

-----------------------------------------------------------------------------
(* Regions and shapes (SHAPE extension) *)

\* A window has, per shape kind, either no client shape (the default
\* region, the window's own rectangle, is in effect) or a client region.
NoShape == [set |-> FALSE, rects |-> {}]

ClientShape(rects) == [set |-> TRUE, rects |-> rects]

FullRect(w) == [x |-> 0, y |-> 0, w |-> w.w, h |-> w.h]

\* The region in effect for a shape of window w, in window coordinates.
Effective(shape, w) == IF shape.set THEN shape.rects ELSE {FullRect(w)}

InRects(px, py, rects) ==
    \E r \in rects : /\ r.x <= px /\ px < r.x + r.w
                     /\ r.y <= py /\ py < r.y + r.h

\* The root-relative point (px, py) lies in the window's rectangle.
InWindowRect(px, py, w) ==
    /\ w.x <= px /\ px < w.x + w.w
    /\ w.y <= py /\ py < w.y + w.h

\* The window takes the pointer event at root-relative (px, py): it is
\* viewable and the point lies in both its bounding and its input region.
AcceptsPointer(px, py, w) ==
    /\ w.exists /\ w.mapped
    /\ InRects(px - w.x, py - w.y, Effective(w.bshape, w))
    /\ InRects(px - w.x, py - w.y, Effective(w.ishape, w))

-----------------------------------------------------------------------------
(* Requests *)

Req(type, phase) ==
    [type |-> type, phase |-> phase, visual |-> "-", depth |-> 0,
     x |-> 0, y |-> 0, w |-> 0, h |-> 0, override |-> FALSE,
     back |-> "-", destKind |-> "-", src |-> "-", op |-> "-",
     rects |-> {}, fg |-> "-", text |-> 0]

\* attrs.override_redirect as a client that leaves the window to the
\* window manager would set it.
OverrideRedirectFalse == FALSE

\* attrs.override_redirect = True
AttrsOverrideRedirect == TRUE

\* attrs.colormap = XCreateColormap(display, root, vinfo.visual, AllocNone)
CreateColormapRequest(vi) ==
    [Req("CreateColormap", "construct") EXCEPT !.visual = vi.visual]

\* window = XCreateWindow(display, root, x, y, width, height, 0, vinfo.depth,
\*                        InputOutput, vinfo.visual, CW..., &attrs)
CreateWindowRequest(vi, at) ==
    [Req("CreateWindow", "construct") EXCEPT
        !.visual = vi.visual, !.depth = vi.depth,
        !.x = WinX, !.y = WinY, !.w = WinWidth, !.h = WinHeight,
        !.override = at.override_redirect, !.back = at.background_pixel]

\* XStoreName(display, window, "C ClickThrough Test")
StoreNameRequest == Req("ChangeProperty", "construct")

\* XMapWindow(display, window)
MapWindowRequest == Req("MapWindow", "show")

\* The shape call as a client that shapes the visible silhouette would make
\* it: XShapeCombineRectangles(display, window, ShapeBounding, 0, 0, NULL, 0,
\* ShapeSet, Unsorted).
ShapeRectanglesEmptyBounding ==
    [Req("ShapeRectangles", "shape") EXCEPT
        !.destKind = ShapeBounding, !.rects = {}, !.op = ShapeSet]

\* XShapeCombineMask(display, window, ShapeInput, 0, 0, None, ShapeSet)
ShapeRequest ==
    [Req("ShapeMask", "shape") EXCEPT
        !.destKind = ShapeInput, !.src = None, !.op = ShapeSet]

\* GC gc = XCreateGC(display, window, 0, NULL)
CreateGCRequest == Req("CreateGC", "paint")

\* What FlushGC sends for a dirty GC cache before a drawing request.
ChangeGCRequest(fg) == [Req("ChangeGC", "paint") EXCEPT !.fg = fg]

\* The fill as a client that ties the clickable area to what it paints
\* would follow it up: the input shape set to the glyphs' box only.
FillThenShapeInputRequest ==
    [Req("ShapeRectangles", "paint") EXCEPT
        !.destKind = ShapeInput, !.op = ShapeSet,
        !.rects = {[x |-> TextX, y |-> TextY, w |-> TextLen, h |-> 1]}]

\* XFillRectangle(display, window, gc, 0, 0, width, height)
FillRectangleRequest ==
    [Req("PolyFillRectangle", "paint") EXCEPT !.w = WinWidth, !.h = WinHeight]

\* XDrawString(display, window, gc, 50, 100, "Click Through Test", 18)
DrawStringRequest ==
    [Req("PolyText8", "paint") EXCEPT !.x = TextX, !.y = TextY, !.text = TextLen]

-----------------------------------------------------------------------------
(* The server: what processing one request does *)

NoWindow ==
    [exists |-> FALSE, mapped |-> FALSE, mapPending |-> FALSE,
     x |-> 0, y |-> 0, w |-> 0, h |-> 0, depth |-> 0, visual |-> "-",
     override |-> FALSE, back |-> "-", named |-> FALSE,
     bshape |-> NoShape, ishape |-> NoShape, content |-> <<>>]

NoColormap == [exists |-> FALSE, visual |-> "-"]

NoGC == [exists |-> FALSE, fg |-> "-"]

\* The server's state as one record, so that a handler is a function on it.
ServerState == [win |-> win, colormap |-> colormap, gc |-> gc]

\* CreateColormap: BadMatch unless the visual is one the screen supports.
CreateColormapOk(st, r) == r.visual \in ScreenVisuals

\* CreateWindow: BadMatch unless the depth and visual are a combination the
\* screen supports and the colormap given is of that visual.
CreateWindowOk(st, r) ==
    /\ r.visual \in ScreenVisuals
    /\ r.depth = DepthOf(r.visual)
    /\ st.colormap.exists
    /\ st.colormap.visual = r.visual

\* The request is valid in server state st; otherwise the server sends
\* an error and changes nothing.
RequestOk(st, r) ==
    CASE r.type = "CreateColormap" -> CreateColormapOk(st, r)
      [] r.type = "CreateWindow" -> CreateWindowOk(st, r)
      [] r.type \in {"ChangeProperty", "MapWindow", "CreateGC"} -> st.win.exists
      [] r.type \in {"ShapeMask", "ShapeRectangles"} ->
             hasShapeExt /\ st.win.exists
      [] r.type = "ChangeGC" -> st.gc.exists
      [] r.type \in {"PolyFillRectangle", "PolyText8"} ->
             st.win.exists /\ st.gc.exists
      [] OTHER -> FALSE

\* MapWindow.  The window manager's redirect applies only to a window
\* whose override-redirect attribute is False; otherwise the server maps
\* the window itself while it processes the request.
MapWindowEffect(w) ==
    IF w.mapped THEN w
    ELSE IF wmRunning /\ ~w.override
         THEN [w EXCEPT !.mapPending = TRUE]
         ELSE [w EXCEPT !.mapped = TRUE]

\* ShapeMask and ShapeRectangles with operation Set.  A ShapeMask whose
\* source bitmap is None removes the client shape of that kind, so the
\* window uses the default region again (SHAPE protocol, ShapeMask).  A
\* ShapeRectangles request sets the client region to the rectangles
\* given; with none given the region is empty.
NewShape(r) ==
    IF r.type = "ShapeMask" /\ r.src = None THEN NoShape
    ELSE ClientShape(r.rects)

ShapeEffect(w, r) ==
    IF r.destKind = ShapeBounding THEN [w EXCEPT !.bshape = NewShape(r)]
    ELSE [w EXCEPT !.ishape = NewShape(r)]

\* Drawing requests change the window's contents and nothing else.
DrawEffect(w, r, g) ==
    [w EXCEPT !.content = Append(@, [what |-> r.type, fg |-> g.fg])]

\* The server state after processing valid request r in state st.
Handle(st, r) ==
    CASE r.type = "CreateColormap" ->
             [st EXCEPT !.colormap = [exists |-> TRUE, visual |-> r.visual]]
      [] r.type = "CreateWindow" ->
             [st EXCEPT !.win =
                 [NoWindow EXCEPT !.exists = TRUE, !.x = r.x, !.y = r.y,
                                  !.w = r.w, !.h = r.h, !.depth = r.depth,
                                  !.visual = r.visual, !.back = r.back,
                                  !.override = r.override]]
      [] r.type = "ChangeProperty" -> [st EXCEPT !.win.named = TRUE]
      [] r.type = "MapWindow" -> [st EXCEPT !.win = MapWindowEffect(@)]
      [] r.type \in {"ShapeMask", "ShapeRectangles"} ->
             [st EXCEPT !.win = ShapeEffect(@, r)]
      [] r.type = "CreateGC" ->
             [st EXCEPT !.gc = [exists |-> TRUE, fg |-> TransparentPixel]]
      [] r.type = "ChangeGC" -> [st EXCEPT !.gc.fg = r.fg]
      [] r.type \in {"PolyFillRectangle", "PolyText8"} ->
             [st EXCEPT !.win = DrawEffect(@, r, st.gc)]
      [] OTHER -> st

-----------------------------------------------------------------------------
(* The client: Xlib *)

\* A request is appended to the Display's output buffer; nothing is
\* written to the connection yet.
Issue(rs) ==
    /\ outbuf' = outbuf \o rs
    /\ issued' = issued \o rs

\* An XFlush left out: the buffer keeps its requests.
XFlushOmitted(buf, w) == [outbuf |-> buf, wire |-> w]

\* XFlush(display): the whole output buffer is written to the connection.
XFlushResult(buf, w) == [outbuf |-> <<>>, wire |-> w \o buf]

\* XFlush, then what Xlib does with the errors that have arrived by then:
\* its default error handler prints the error and calls exit(1).
XFlush(next) ==
    /\ outbuf' = XFlushResult(outbuf, wire).outbuf
    /\ wire' = XFlushResult(outbuf, wire).wire
    /\ IF errors # <<>>
       THEN /\ pc' = "xerror"
            /\ exitStatus' = ExitFailure
            /\ diag' = Append(diag, "X Error of failed request")
            /\ errors' = <<>>
       ELSE /\ pc' = next
            /\ UNCHANGED <<exitStatus, diag, errors>>

\* FlushGC: a dirty GC cache is sent as ChangeGC before the drawing request.
FlushGCRequests == IF gcDirty THEN <<ChangeGCRequest(gcForeground)>> ELSE <<>>

\* XSetForeground(display, gc, pixel): Xlib only updates its cache.
SetForeground(pixel, next) ==
    /\ gcForeground' = pixel
    /\ gcDirty' = (gcDirty \/ gcForeground # pixel)
    /\ pc' = next

-----------------------------------------------------------------------------
(* The client: main() *)

\* if (!display) without the test.
DisplayIsNullUnchecked(d) == FALSE

\* if (!display)
DisplayIsNull(d) == d = NULL

\* What the keep-alive loop would go back to if it enclosed the setup.
IdleNextRemap == "map_window"

\* while (1) { sleep(1); }
IdleNext == "idle"

\* The positions of main() at which the process is gone.
Terminated == {"returned", "xerror", "crashed"}

\* display = XOpenDisplay(NULL); if (!display) { fprintf(...); return 1; }
OpenDisplay ==
    /\ pc = "open"
    /\ openCalls' = openCalls + 1
    /\ LET d == IF serverUp THEN "dpy" ELSE NULL
       IN  /\ display' = d
           /\ IF DisplayIsNull(d)
              THEN /\ diag' = Append(diag, "Cannot open display")
                   /\ exitStatus' = ExitFailure
                   /\ pc' = "returned"
              ELSE /\ pc' = "match_visual"
                   /\ UNCHANGED <<diag, exitStatus>>
    /\ UNCHANGED <<vinfo, attrs, gcForeground, gcDirty, outbuf, issued>>
    /\ UNCHANGED <<envVars, wire, errors, serverVars, pointerVars>>

\* XMatchVisualInfo(display, screen, 32, TrueColor, &vinfo): fills vinfo
\* when a visual matches and leaves it alone otherwise; main() does not
\* look at the status returned.
MatchVisualInfo ==
    /\ pc = "match_visual"
    /\ vinfo' = IF hasArgbVisual
                THEN [visual |-> "argb32", depth |-> AlphaDepth, filled |-> TRUE]
                ELSE vinfo
    /\ pc' = "create_colormap"
    /\ UNCHANGED <<display, attrs, gcForeground, gcDirty, outbuf, issued,
                   openCalls, exitStatus, diag>>
    /\ UNCHANGED <<envVars, wire, errors, serverVars, pointerVars>>

\* attrs.colormap = XCreateColormap(display, root, vinfo.visual, AllocNone)
\* and the three attrs assignments.  Xlib reads vinfo.visual->visualid.
CreateColormap ==
    /\ pc = "create_colormap"
    /\ IF vinfo.visual = "wild"
       THEN /\ pc' = "crashed"
            /\ UNCHANGED <<attrs, outbuf, issued>>
       ELSE /\ Issue(<<CreateColormapRequest(vinfo)>>)
            /\ attrs' = [colormap |-> "cmap",
                         background_pixel |-> TransparentPixel,
                         border_pixel |-> TransparentPixel,
                         override_redirect |-> AttrsOverrideRedirect]
            /\ pc' = "create_window"
    /\ UNCHANGED <<display, vinfo, gcForeground, gcDirty, openCalls,
                   exitStatus, diag>>
    /\ UNCHANGED <<envVars, wire, errors, serverVars, pointerVars>>

\* window = XCreateWindow(...)
CreateWindow ==
    /\ pc = "create_window"
    /\ Issue(<<CreateWindowRequest(vinfo, attrs)>>)
    /\ pc' = "store_name"
    /\ UNCHANGED <<display, vinfo, attrs, gcForeground, gcDirty, openCalls,
                   exitStatus, diag>>
    /\ UNCHANGED <<envVars, wire, errors, serverVars, pointerVars>>

\* XStoreName(display, window, "C ClickThrough Test")
StoreName ==
    /\ pc = "store_name"
    /\ Issue(<<StoreNameRequest>>)
    /\ pc' = "map_window"
    /\ UNCHANGED <<display, vinfo, attrs, gcForeground, gcDirty, openCalls,
                   exitStatus, diag>>
    /\ UNCHANGED <<envVars, wire, errors, serverVars, pointerVars>>

\* XMapWindow(display, window)
MapWindow ==
    /\ pc = "map_window"
    /\ Issue(<<MapWindowRequest>>)
    /\ pc' = "flush_map"
    /\ UNCHANGED <<display, vinfo, attrs, gcForeground, gcDirty, openCalls,
                   exitStatus, diag>>
    /\ UNCHANGED <<envVars, wire, errors, serverVars, pointerVars>>

\* XFlush(display) after the map, and the two printf lines
FlushMap ==
    /\ pc = "flush_map"
    /\ XFlush("sleep")
    /\ UNCHANGED <<display, vinfo, attrs, gcForeground, gcDirty, issued, openCalls>>
    /\ UNCHANGED <<envVars, serverVars, pointerVars>>

\* sleep(1): nothing is read from or written to the connection
Sleep ==
    /\ pc = "sleep"
    /\ pc' = "shape"
    /\ UNCHANGED <<display, vinfo, attrs, gcForeground, gcDirty, outbuf,
                   issued, openCalls, exitStatus, diag>>
    /\ UNCHANGED <<envVars, wire, errors, serverVars, pointerVars>>

\* XShapeCombineMask(display, window, ShapeInput, 0, 0, None, ShapeSet).
\* Without the extension Xlib reports it missing on stderr and the call
\* returns having issued nothing; the call returns void either way.
ShapeCombineMask ==
    /\ pc = "shape"
    /\ IF hasShapeExt
       THEN /\ Issue(<<ShapeRequest>>)
            /\ UNCHANGED diag
       ELSE /\ diag' = Append(diag, "Xlib: extension SHAPE missing on display")
            /\ UNCHANGED <<outbuf, issued>>
    /\ pc' = "flush_shape"
    /\ UNCHANGED <<display, vinfo, attrs, gcForeground, gcDirty, openCalls,
                   exitStatus>>
    /\ UNCHANGED <<envVars, wire, errors, serverVars, pointerVars>>

\* XFlush(display) after the shape call, and the printf line
FlushShape ==
    /\ pc = "flush_shape"
    /\ XFlush("create_gc")
    /\ UNCHANGED <<display, vinfo, attrs, gcForeground, gcDirty, issued, openCalls>>
    /\ UNCHANGED <<envVars, serverVars, pointerVars>>

\* GC gc = XCreateGC(display, window, 0, NULL)
CreateGC ==
    /\ pc = "create_gc"
    /\ Issue(<<CreateGCRequest>>)
    /\ gcForeground' = TransparentPixel
    /\ gcDirty' = FALSE
    /\ pc' = "set_red"
    /\ UNCHANGED <<display, vinfo, attrs, openCalls, exitStatus, diag>>
    /\ UNCHANGED <<envVars, wire, errors, serverVars, pointerVars>>

\* XSetForeground(display, gc, 0xFFFF0000)
SetForegroundRed ==
    /\ pc = "set_red"
    /\ SetForeground(RedPixel, "fill")
    /\ UNCHANGED <<display, vinfo, attrs, outbuf, issued, openCalls,
                   exitStatus, diag>>
    /\ UNCHANGED <<envVars, wire, errors, serverVars, pointerVars>>

\* The fill as a client that ties the clickable area to what it paints
\* would do it: the fill, then the input shape set to the glyphs' box.
FillAndShapeInputRequests == <<FillRectangleRequest, FillThenShapeInputRequest>>

\* What XFillRectangle(display, window, gc, 0, 0, width, height) issues
\* after the GC is flushed.
FillRectangleRequests == <<FillRectangleRequest>>

FillRectangle ==
    /\ pc = "fill"
    /\ Issue(FlushGCRequests \o FillRectangleRequests)
    /\ gcDirty' = FALSE
    /\ pc' = "set_white"
    /\ UNCHANGED <<display, vinfo, attrs, gcForeground, openCalls,
                   exitStatus, diag>>
    /\ UNCHANGED <<envVars, wire, errors, serverVars, pointerVars>>

\* XSetForeground(display, gc, 0xFFFFFFFF)
SetForegroundWhite ==
    /\ pc = "set_white"
    /\ SetForeground(WhitePixel, "draw_string")
    /\ UNCHANGED <<display, vinfo, attrs, outbuf, issued, openCalls,
                   exitStatus, diag>>
    /\ UNCHANGED <<envVars, wire, errors, serverVars, pointerVars>>

\* XDrawString(display, window, gc, 50, 100, "Click Through Test", 18)
DrawString ==
    /\ pc = "draw_string"
    /\ Issue(FlushGCRequests \o <<DrawStringRequest>>)
    /\ gcDirty' = FALSE
    /\ pc' = "flush_paint"
    /\ UNCHANGED <<display, vinfo, attrs, gcForeground, openCalls,
                   exitStatus, diag>>
    /\ UNCHANGED <<envVars, wire, errors, serverVars, pointerVars>>

\* XFlush(display) after the paint batch, and the two printf lines
FlushPaint ==
    /\ pc = "flush_paint"
    /\ XFlush("idle")
    /\ UNCHANGED <<display, vinfo, attrs, gcForeground, gcDirty, issued, openCalls>>
    /\ UNCHANGED <<envVars, serverVars, pointerVars>>

\* while (1) { sleep(1); }
KeepAlive ==
    /\ pc = "idle"
    /\ pc' = IdleNext
    /\ UNCHANGED <<display, vinfo, attrs, gcForeground, gcDirty, outbuf,
                   issued, openCalls, exitStatus, diag>>
    /\ UNCHANGED <<envVars, wire, errors, serverVars, pointerVars>>

-----------------------------------------------------------------------------
(* The server *)

\* How the window is when the server takes a shape request on it.
WindowSeen(w) ==
    IF ~w.exists THEN "nowindow"
    ELSE IF w.mapped THEN "mapped" ELSE "unmapped"

\* The server processes the connection's next request: the requests of
\* one connection are processed in the order they were written.
ServerProcess ==
    /\ wire # <<>>
    /\ LET r == Head(wire)
           st == ServerState
           ok == RequestOk(st, r)
           nx == IF ok THEN Handle(st, r) ELSE st
       IN  /\ win' = nx.win
           /\ colormap' = nx.colormap
           /\ gc' = nx.gc
           /\ errors' = IF ok THEN errors ELSE Append(errors, r.type)
           /\ processed' = Append(processed, r)
           /\ shapeSeen' = IF r.type \in {"ShapeMask", "ShapeRectangles"}
                              /\ r.phase = "shape"
                           THEN WindowSeen(win)
                           ELSE shapeSeen
    /\ wire' = Tail(wire)
    /\ UNCHANGED <<envVars, clientVars, pointerVars>>

\* The client's process is gone and its requests are processed: the
\* server closes the connection down and frees the client's resources.
ServerCloseDown ==
    /\ pc \in {"xerror", "crashed"}
    /\ wire = <<>>
    /\ win.exists \/ colormap.exists \/ gc.exists
    /\ win' = NoWindow
    /\ colormap' = NoColormap
    /\ gc' = NoGC
    /\ UNCHANGED <<processed, shapeSeen>>
    /\ UNCHANGED <<envVars, clientVars, wire, errors, pointerVars>>

\* The root-relative points at which the pointer is pressed: inside the
\* window near its origin, at its last pixel, and just right of it; only
\* points on the screen.
PointerPoints ==
    { p \in { <<WinX + 10, WinY + 10>>,
              <<WinX + WinWidth - 1, WinY + WinHeight - 1>>,
              <<WinX + WinWidth, WinY + 10>> } :
          0 <= p[1] /\ p[1] < screenWidth }

NoClick == [x |-> 0, y |-> 0, target |-> "-", inside |-> FALSE, shaped |-> FALSE]

\* A pointer event at p: the server delivers it to the overlay if the
\* overlay takes it there, and to what lies beneath otherwise.
PointerEvent(p) ==
    /\ serverUp
    /\ clicks < MaxClicks
    /\ clicks' = clicks + 1
    /\ lastClick' = [x |-> p[1], y |-> p[2],
                     target |-> IF AcceptsPointer(p[1], p[2], win)
                                THEN "overlay" ELSE "beneath",
                     inside |-> win.exists /\ InWindowRect(p[1], p[2], win),
                     shaped |-> shapeSeen # "never"]
    /\ UNCHANGED <<envVars, clientVars, wire, errors, serverVars>>

-----------------------------------------------------------------------------
(* The specification *)

Init ==
    /\ serverUp \in BOOLEAN
    /\ hasArgbVisual \in BOOLEAN
    /\ hasShapeExt \in BOOLEAN
    /\ wmRunning \in BOOLEAN
    /\ screenWidth \in ScreenWidths
    /\ pc = "open"
    /\ display = NULL
    /\ vinfo \in GarbageVinfo
    /\ attrs = [colormap |-> "-", background_pixel |-> "-",
                border_pixel |-> "-", override_redirect |-> FALSE]
    /\ gcForeground = "-"
    /\ gcDirty = FALSE
    /\ outbuf = <<>>
    /\ issued = <<>>
    /\ openCalls = 0
    /\ exitStatus = 0
    /\ diag = <<>>
    /\ wire = <<>>
    /\ errors = <<>>
    /\ win = NoWindow
    /\ colormap = NoColormap
    /\ gc = NoGC
    /\ processed = <<>>
    /\ shapeSeen = "never"
    /\ clicks = 0
    /\ lastClick = NoClick

Next ==
    \/ OpenDisplay
    \/ MatchVisualInfo
    \/ CreateColormap
    \/ CreateWindow
    \/ StoreName
    \/ MapWindow
    \/ FlushMap
    \/ Sleep
    \/ ShapeCombineMask
    \/ FlushShape
    \/ CreateGC
    \/ SetForegroundRed
    \/ FillRectangle
    \/ SetForegroundWhite
    \/ DrawString
    \/ FlushPaint
    \/ KeepAlive
    \/ ServerProcess
    \/ ServerCloseDown
    \/ \E p \in PointerPoints : PointerEvent(p)

Spec == Init /\ [][Next]_vars

-----------------------------------------------------------------------------
(* Notions the properties share *)

\* The positions of main() after the XShapeCombineMask call has returned.
AfterShapeCall ==
    {"flush_shape", "create_gc", "set_red", "fill", "set_white",
     "draw_string", "flush_paint", "idle"}

\* The server has processed the shape request on the existing window.
ShapeApplied == shapeSeen \in {"mapped", "unmapped"}

\* The server is about to process a request of the given phase, and does.
Processing(phase) ==
    /\ wire # <<>>
    /\ Head(wire).phase = phase
    /\ processed' = Append(processed, Head(wire))

\* The server has processed the whole paint batch.
PaintDone == \E i \in 1..Len(processed) : processed[i].type = "PolyText8"

\* The window's input region in effect.
InputRegion(w) == Effective(w.ishape, w)

\* The window's bounding (visible) region in effect.
BoundingRegion(w) == Effective(w.bshape, w)

WholeWindow == {[x |-> 0, y |-> 0, w |-> WinWidth, h |-> WinHeight]}

Types(seq) == [i \in 1..Len(seq) |-> seq[i].type]

PhaseRank(phase) ==
    CASE phase = "construct" -> 1
      [] phase = "show" -> 2
      [] phase = "shape" -> 3
      [] phase = "paint" -> 4

\* The state of the window's state machine, as a rank:
\* Unborn 0, Created 1, Mapped 2, ClickThroughApplied 3, Painted 4.
WindowRank ==
    IF ~win.exists THEN 0
    ELSE IF ~win.mapped THEN 1
    ELSE IF PaintDone THEN 4
    ELSE IF ShapeApplied THEN 3
    ELSE 2

-----------------------------------------------------------------------------
(* The claims *)

\* C1: once the server has processed the XShapeCombineMask request of
\* main() (ShapeInput, mask None, ShapeSet), the window's input region is
\* empty, and every later pointer event inside the window's rectangle is
\* delivered to what lies beneath, never to the overlay.  Stated for the
\* executions in which the 32-bit visual and the extension exist.
C1_InputEmptyAfterShape ==
    (hasArgbVisual /\ shapeSeen = "mapped" /\ win.exists) =>
        /\ InputRegion(win) = {}
        /\ (lastClick.shaped /\ lastClick.inside) => lastClick.target = "beneath"

\* C2: processing a request of the paint phase leaves the window's input
\* shape, its input region in effect and the windows that take the pointer
\* at every point as they were; painting opaque red over the whole window
\* does not change where input goes.
C2_PaintKeepsInputRegion ==
    [][Processing("paint") =>
          /\ win'.ishape = win.ishape
          /\ InputRegion(win') = InputRegion(win)
          /\ \A p \in PointerPoints :
                 AcceptsPointer(p[1], p[2], win') = AcceptsPointer(p[1], p[2], win)]_vars

\* C2 witness: the whole paint batch is processed, the window is filled
\* with opaque red, and its input region is the one it had before.
C2_Witness ==
    /\ PaintDone
    /\ win.exists /\ win.mapped
    /\ Len(win.content) = 2
    /\ win.content[1] = [what |-> "PolyFillRectangle", fg |-> RedPixel]
    /\ InputRegion(win) = WholeWindow

\* C3: processing the shape request of main() changes at most the input
\* shape: the bounding shape, the mapped state and the geometry are as
\* before, and the visible region is still the full 200x200 rectangle.
C3_ShapeChangesOnlyInput ==
    [][Processing("shape") =>
          /\ win'.bshape = win.bshape
          /\ win'.mapped = win.mapped
          /\ win'.exists = win.exists
          /\ <<win'.x, win'.y, win'.w, win'.h>> = <<win.x, win.y, win.w, win.h>>
          /\ win.exists => BoundingRegion(win') = WholeWindow]_vars

\* C3 witness: the shape request has been processed on the mapped window,
\* which is still mapped with the full rectangle as its visible region.
C3_Witness ==
    /\ shapeSeen = "mapped"
    /\ win.exists /\ win.mapped
    /\ BoundingRegion(win) = WholeWindow
    /\ <<win.w, win.h>> = <<WinWidth, WinHeight>>

\* C4: without a 32-bit TrueColor visual the program aborts after the
\* visual query: it issues no request that uses the visual descriptor and
\* no colormap or window exists; with such a visual the descriptor used
\* for the colormap and the window has depth 32.
C4_VisualUnavailableAborts ==
    /\ ~hasArgbVisual =>
           /\ \A i \in 1..Len(issued) :
                  issued[i].type \notin {"CreateColormap", "CreateWindow"}
           /\ ~colormap.exists /\ ~win.exists
           /\ pc \in {"open", "match_visual", "create_colormap"} \cup Terminated
    /\ hasArgbVisual =>
           \A i \in 1..Len(issued) :
               issued[i].type \in {"CreateColormap", "CreateWindow"} =>
                   DepthOf(issued[i].visual) = AlphaDepth

\* C5: without the SHAPE extension the shape call is a fatal setup error,
\* so main() does not go on past it: the process ends with a non-zero
\* status, and the window is left mapped and accepting input.  Stated for
\* the executions in which the 32-bit visual exists.
C5_ShapeUnavailableIsFatal ==
    (~hasShapeExt /\ hasArgbVisual /\ pc \in AfterShapeCall \cup Terminated /\ shapeSeen = "never"
         /\ \E i \in 1..Len(diag) : diag[i] = "Xlib: extension SHAPE missing on display") =>
        /\ pc \in Terminated
        /\ exitStatus # 0
        /\ win.exists => InputRegion(win) = WholeWindow

\* C6: when the display cannot be opened, main() prints its diagnostic
\* and returns 1 after the one XOpenDisplay call: no request is ever
\* issued, buffered, written or processed, and no resource exists.
C6_NoDisplayNoRequests ==
    ~serverUp =>
        /\ pc \in {"open", "returned"}
        /\ openCalls <= 1
        /\ issued = <<>> /\ outbuf = <<>> /\ wire = <<>> /\ processed = <<>>
        /\ ~win.exists /\ ~colormap.exists /\ ~gc.exists
        /\ pc = "returned" =>
               /\ exitStatus = ExitFailure
               /\ diag = <<"Cannot open display">>
               /\ openCalls = 1

\* C6 witness: the display could not be opened and main() has returned.
C6_Witness ==
    /\ ~serverUp
    /\ pc = "returned"
    /\ display = NULL
    /\ exitStatus = ExitFailure

\* C7: applying the shape request a second time to the window gives the
\* same input region as applying it once, and that region is empty.
C7_ShapeTwiceStaysEmpty ==
    (hasArgbVisual /\ shapeSeen = "mapped" /\ win.exists) =>
        LET twice == ShapeEffect(win, ShapeRequest)
        IN  /\ InputRegion(twice) = InputRegion(win)
            /\ InputRegion(twice) = {}

\* C8: whenever the display opens, the window's state moves Unborn,
\* Created, Mapped, ClickThroughApplied, Painted one state at a time and
\* never back; the window is never unmapped or destroyed, its input region
\* does not change once the shape is applied, and once it is Painted the
\* client issues nothing more.  Stated for the executions in which the
\* 32-bit visual exists.
C8_StatesInOrder ==
    [][hasArgbVisual =>
       /\ WindowRank' \in {WindowRank, WindowRank + 1}
       /\ win.exists => win'.exists
       /\ win.mapped => win'.mapped
       /\ (ShapeApplied /\ win.exists) => InputRegion(win') = InputRegion(win)
       /\ WindowRank = 4 => issued' = issued /\ pc' = "idle"]_vars

\* C9: whenever the server processes the shape request on the window, the
\* window is already mapped, however long the server lags behind the
\* client and whether or not a window manager runs.
C9_ShapeOnlyOnMappedWindow ==
    /\ shapeSeen # "unmapped"
    /\ ShapeApplied => win.exists /\ win.mapped /\ win.override

\* C9 witness: with a window manager running and the server lagging, the
\* shape request has been processed, on the mapped window.
C9_Witness ==
    /\ wmRunning
    /\ shapeSeen = "mapped"
    /\ win.mapped
    /\ ~PaintDone

\* C10: when main() sleeps, goes on after the flush that follows the shape
\* call, or idles, Xlib's output buffer is empty and everything issued is
\* written; and the server is handed the requests in the order issued,
\* construct, show, shape, paint.
C10_FlushedBeforeSuspension ==
    /\ pc \in {"sleep", "create_gc", "idle"} =>
           /\ outbuf = <<>>
           /\ processed \o wire = issued
    /\ \E n \in 0..Len(issued) : processed \o wire = SubSeq(issued, 1, n)
    /\ \A i, j \in 1..Len(processed) :
           i < j => PhaseRank(processed[i].phase) <= PhaseRank(processed[j].phase)

\* C10 witness: main() idles, nothing is buffered, and the server has
\* processed the create, map, shape and paint requests in that order.
C10_Witness ==
    /\ pc = "idle"
    /\ outbuf = <<>> /\ wire = <<>>
    /\ Types(processed) = <<"CreateColormap", "CreateWindow", "ChangeProperty",
                            "MapWindow", "ShapeMask", "CreateGC", "ChangeGC",
                            "PolyFillRectangle", "ChangeGC", "PolyText8">>

=============================================================================
